---- MODULE Spec2Model ----
(***************************************************************************)
(* The publisher service of the NUJ monitor: the schedule and rollback     *)
(* routes (services/publisher/src/routes/index.js), the Bull job handler   *)
(* (services/publisher/src/queue/index.js), the email service and the      *)
(* 19-layer guardrails (listed in ARCHITECTURE.md), over the tables of     *)
(* infrastructure/database/schema.sql.                                     *)
(*                                                                         *)
(* Time is counted in minutes since the epoch; the service starts at       *)
(* minute 1.  NULL is SQL NULL / JavaScript null.                          *)
(*                                                                         *)
(* Three inputs of the deployment are fixed when the service starts:       *)
(*  - config.safety (approvalRequired, enableRollback, gracePeriodMinutes, *)
(*    testGroupEmails), read from the environment;                         *)
(*  - table.unsubscribe_url / table.test_mode: what a row fetched with     *)
(*    SELECT gp.* carries in the two columns the guardrails read but the   *)
(*    INSERT of the schedule route never writes.  schema.sql declares      *)
(*    neither column, and for that schema both are FALSE (absent);         *)
(*  - table.zone: how much later the store reads a scheduled_for text      *)
(*    without a zone designator than `new Date(scheduled_for)` does (the   *)
(*    store parses it in its session time zone, JavaScript in the zone of  *)
(*    the process); 0 when both agree.                                     *)
(*                                                                         *)
(* proc is the process itself: how far start() got (unnamed/part_003),     *)
(* the states of the pool, the queue and the HTTP server, and where each   *)
(* call of gracefulShutdown stands (utils/shutdown.js).  Routes run only   *)
(* while the server listens, job attempts start only while the handler is  *)
(* registered.  logged is what the catch blocks of the guardrails logged   *)
(* in the last gate evaluation of a job attempt.                           *)
(***************************************************************************)
EXTENDS Integers, Sequences, FiniteSets, TLC

\* ---------------------------------------------------------------- bounds
MaxPubs == 1
MaxTime == 4
MaxSched == 3
MaxReq == 2
GraceMinutes == 2
ZoneOffset == 3
MaxFaults == 1
MaxGroup == 3
MaxSignals == 2

\* ------------------------------------------------------ program constants
attempts == 3
RateCeiling == 1000
RateWindow == 60
MsPerMinute == 60000
EpochMs == 0

\* SQL NULL / JavaScript null in an instant column and in a text column
NULL == 0
NullText == "null"
PubIds == 1..MaxPubs
ReqIds == 1..MaxReq
Times == 1..MaxTime
Drafts == {"d1"}
Segments == {"seg1"}
\* the reason text of the r-th rollback request
ReasonOf(r) == IF r % 2 = 1 THEN "typo" ELSE "legal"
\* the scheduled_for instants a schedule request names: at once, or ahead
SchedTimes == {1, MaxSched}

\* now, config, table: the clock and the deployment
\* members, pubs, approval_requests, delivery_events: the tables
\* jobs: the Bull queue, with the position of each handler run
\* reqs: the rollback requests being served
\* response, transport: the last HTTP response of the rollback route and the
\*   last transport call of the email service, each with what its request or
\*   job had seen (history kept for the properties, never read by an action)
\* faults: the storage errors injected so far
\* verdict: the last response of the safety-check route
VARIABLES now, config, table, members, pubs, approval_requests, delivery_events,
          jobs, reqs, response, transport, faults, verdict, proc, logged

vars == <<now, config, table, members, pubs, approval_requests, delivery_events,
          jobs, reqs, response, transport, faults, verdict, proc, logged>>

\* ------------------------------------------------------------ conversions
\* new Date(v).getTime(): null converts to the epoch, an instant to its ms
NewDate(v) == IF v = NULL THEN EpochMs ELSE v * MsPerMinute

\* metadata->>'key': the text of a JSON boolean, SQL NULL for a missing key
MetaText(metadata, key) ==
  IF key \in DOMAIN metadata
  THEN (IF metadata[key] THEN "true" ELSE "false")
  ELSE NullText

\* sha256 hex digest of the address (one-way, collision-free on the model's addresses)
hashEmail(email) == <<"sha256", email>>

\* ------------------------------------------------------------ members table
Members ==
  { [id |-> "m1", email |-> "ann@example.org", segment_id |-> "seg1",
     email_verified |-> TRUE, subscribed |-> TRUE],
    [id |-> "m2", email |-> "bob@example.org", segment_id |-> "seg1",
     email_verified |-> FALSE, subscribed |-> TRUE],
    [id |-> "m3", email |-> "cat@example.org", segment_id |-> "seg1",
     email_verified |-> TRUE, subscribed |-> FALSE] }

RECURSIVE RowsOf(_)
\* the rows of a query result, in the order the store returns them
RowsOf(S) ==
  IF S = {} THEN << >>
  ELSE LET m == CHOOSE x \in S : TRUE
       IN  <<m>> \o RowsOf(S \ {m})

\* the recipients resolved against the members table as it was at start-up
getRecipients_early(publication, rows) ==
  IF publication.segment_id = NullText
  THEN << >>
  ELSE RowsOf({ [id |-> m.id, email |-> m.email] :
                m \in { x \in Members : /\ x.segment_id = publication.segment_id
                                           /\ x.email_verified
                                           /\ x.subscribed } })

getRecipients(publication, rows) ==
  IF publication.segment_id = NullText
  THEN << >>
  ELSE RowsOf({ [id |-> m.id, email |-> m.email] :
                m \in { x \in rows : /\ x.segment_id = publication.segment_id
                                        /\ x.email_verified
                                        /\ x.subscribed } })

\* config.safety.testGroupEmails.map((email, i) => ({ id: `test-${i}`, email }))
TestRecipients(emails) ==
  [i \in 1..Len(emails) |-> [id |-> <<"test", i - 1>>, email |-> emails[i]]]

\* unsubscribeUrl of the message sendGuidance renders for a recipient
unsubscribeUrl(recipient) == <<"https://nuj.org.uk/unsubscribe/", recipient.id>>

\* ------------------------------------------------------------ guardrails
Layer(n, nm) == [layer |-> n, name |-> nm]

\* checkApproval without the status filter of its query
checkApproval_anyStatus(publication, approvals) ==
  \E a \in approvals : /\ a.related_entity_id = publication.guidance_draft_id
                       /\ a.request_type = "guidance_publication"

checkApproval(publication, approvals) ==
  \E a \in approvals : /\ a.related_entity_id = publication.guidance_draft_id
                       /\ a.request_type = "guidance_publication"
                       /\ a.status = "approved"

checkGracePeriod(publication, cfg, t) ==
  IF publication.scheduled_for = NULL
  THEN FALSE
  ELSE NewDate(publication.scheduled_for) - NewDate(t)
         >= cfg.gracePeriodMinutes * 60 * 1000

\* the check passing whatever the row and the earlier publications
checkTestGroup_open(publication, rows) == TRUE

checkTestGroup(publication, rows) ==
  IF publication.test_mode
  THEN TRUE
  ELSE \E q \in DOMAIN rows :
         /\ rows[q].guidance_draft_id = publication.guidance_draft_id
         /\ rows[q].publication_channel = "email"
         /\ MetaText(rows[q].metadata, "is_test") = "true"
         /\ rows[q].published_at # NULL

checkRollbackCapability(publication, t) ==
  NewDate(t) < NewDate(publication.grace_period_ends_at)

\* the check failing closed when its count query throws
checkRateLimit_failClosed(events, t, lookupFails) ==
  IF lookupFails
  THEN FALSE
  ELSE Cardinality({ e \in events : /\ e.event_type = "sent"
                                    /\ e.occurred_at > t - RateWindow }) < RateCeiling

\* lookupFails: the count query throws, and the catch returns true
checkRateLimit(events, t, lookupFails) ==
  IF lookupFails
  THEN TRUE
  ELSE Cardinality({ e \in events : /\ e.event_type = "sent"
                                    /\ e.occurred_at > t - RateWindow }) < RateCeiling

checkDataProtection(publication) ==
  [passed |-> <<Layer(5, "member_data_encryption"), Layer(6, "access_control"),
                Layer(7, "audit_logging")>>
              \o (IF publication.unsubscribe_url
                  THEN <<Layer(8, "gdpr_compliance")>> ELSE << >>)
              \o <<Layer(9, "data_retention"), Layer(10, "privacy_by_design")>>,
   failed |-> IF publication.unsubscribe_url
              THEN << >> ELSE <<Layer(8, "gdpr_compliance")>>]

\* the operational layers with a rate limit that still passes at the ceiling
checkOperationalSafety_atCeiling(events, t, lookupFails) ==
  LET count == Cardinality({ e \in events : /\ e.event_type = "sent"
                                            /\ e.occurred_at > t - RateWindow })
      ok == lookupFails \/ count <= RateCeiling
  IN  [passed |-> (IF ok THEN <<Layer(11, "rate_limiting")>> ELSE << >>)
                  \o <<Layer(12, "graceful_degradation"), Layer(13, "backup_systems"),
                       Layer(14, "disaster_recovery"), Layer(15, "health_monitoring")>>,
       failed |-> IF ok THEN << >> ELSE <<Layer(11, "rate_limiting")>>]

checkOperationalSafety(events, t, lookupFails) ==
  [passed |-> (IF checkRateLimit(events, t, lookupFails)
               THEN <<Layer(11, "rate_limiting")>> ELSE << >>)
              \o <<Layer(12, "graceful_degradation"), Layer(13, "backup_systems"),
                   Layer(14, "disaster_recovery"), Layer(15, "health_monitoring")>>,
   failed |-> IF checkRateLimit(events, t, lookupFails)
              THEN << >> ELSE <<Layer(11, "rate_limiting")>>]

checkMonitoring ==
  [passed |-> <<Layer(16, "change_notifications"), Layer(17, "service_health"),
                Layer(18, "anomaly_detection"), Layer(19, "delivery_tracking")>>,
   failed |-> << >>]

\* an entry that lists a failing layer nowhere
Entry_dropFailed(ok, l) == [passed |-> IF ok THEN <<l>> ELSE << >>,
                            failed |-> << >>]

\* one layer's entry in the passed or in the failed list
Entry(ok, l) == [passed |-> IF ok THEN <<l>> ELSE << >>,
                 failed |-> IF ok THEN << >> ELSE <<l>>]

NoEntry == [passed |-> << >>, failed |-> << >>]

Checks(publication, cfg, t, approvals, rows, events, lookupFails) ==
  LET l1 == IF cfg.approvalRequired
            THEN Entry(checkApproval(publication, approvals),
                       Layer(1, "approval_required"))
            ELSE NoEntry
      l2 == Entry(checkGracePeriod(publication, cfg, t), Layer(2, "grace_period"))
      l3 == Entry(checkTestGroup(publication, rows), Layer(3, "test_group"))
      l4 == Entry(~(~checkRollbackCapability(publication, t) /\ cfg.enableRollback),
                  Layer(4, "rollback_capability"))
      dp == checkDataProtection(publication)
      op == checkOperationalSafety(events, t, lookupFails)
      mo == checkMonitoring
  IN  [passed |-> l1.passed \o l2.passed \o l3.passed \o l4.passed
                  \o dp.passed \o op.passed \o mo.passed,
       failed |-> l1.failed \o l2.failed \o l3.failed \o l4.failed
                  \o dp.failed \o op.failed \o mo.failed]

\* checkApproval with a catch that returns true
checkApprovalQuery_open(publication, approvals, throws) ==
  IF throws THEN TRUE ELSE checkApproval(publication, approvals)

\* checkApproval, its query answering or throwing: the catch returns false
checkApprovalQuery(publication, approvals, throws) ==
  IF throws THEN FALSE ELSE checkApproval(publication, approvals)

\* checkTestGroup, its query answering or throwing: the catch returns false;
\* a row with test_mode set returns before the query
checkTestGroupQuery(publication, rows, throws) ==
  IF publication.test_mode
  THEN TRUE
  ELSE IF throws THEN FALSE ELSE checkTestGroup(publication, rows)

\* the report of checkBeforePublish when the queries named in errors throw
ChecksOnError(publication, cfg, t, approvals, rows, events, errors) ==
  LET l1 == IF cfg.approvalRequired
            THEN Entry(checkApprovalQuery(publication, approvals,
                                          "approval" \in errors),
                       Layer(1, "approval_required"))
            ELSE NoEntry
      l2 == Entry(checkGracePeriod(publication, cfg, t), Layer(2, "grace_period"))
      l3 == Entry(checkTestGroupQuery(publication, rows, "test_group" \in errors),
                  Layer(3, "test_group"))
      l4 == Entry(~(~checkRollbackCapability(publication, t) /\ cfg.enableRollback),
                  Layer(4, "rollback_capability"))
      dp == checkDataProtection(publication)
      op == checkOperationalSafety(events, t, "rate_limit" \in errors)
      mo == checkMonitoring
  IN  [passed |-> l1.passed \o l2.passed \o l3.passed \o l4.passed
                  \o dp.passed \o op.passed \o mo.passed,
       failed |-> l1.failed \o l2.failed \o l3.failed \o l4.failed
                  \o dp.failed \o op.failed \o mo.failed]

\* the verdict taken from the passed list instead of the failed list
Safe_fromPassed(checks) == Len(checks.passed) > 0

Safe(checks) == Len(checks.failed) = 0

checkBeforePublish(publication, cfg, t, approvals, rows, events, lookupFails) ==
  LET checks == Checks(publication, cfg, t, approvals, rows, events, lookupFails)
  IN  [safe |-> Safe(checks), checks |-> checks]

\* ------------------------------------------------------------ state
IdleReq == [pc |-> "idle", id |-> 0, reason |-> NullText, at |-> NULL,
            found |-> FALSE, rolled_back |-> FALSE,
            grace_period_ends_at |-> NULL, job_pending |-> FALSE]

DoneReq == [IdleReq EXCEPT !.pc = "done"]

\* a response, with what its request had read (found, rolled_back,
\* grace_period_ends_at, job_pending, at the instant `at` it arrived) and
\* whether the row it updated was rolled back already (overwrote)
NoResponse == [status |-> 0, error |-> NullText, id |-> 0,
               at |-> NULL, found |-> FALSE, rolled_back |-> FALSE,
               grace_period_ends_at |-> NULL, job_pending |-> FALSE,
               overwrote |-> FALSE]

\* a transport call, with the approval and the published test-mode publication
\* of the draft its job attempt had found at the gate, and whether the
\* publication was rolled back when the call was made
NoTransport == [publication_id |-> 0, to |-> NullText, ok |-> FALSE,
                approved |-> FALSE, tested |-> FALSE, rolled_back |-> FALSE]

\* a response of the safety-check route: for a publication found, the object
\* checkBeforePublish returned
NoVerdict == [status |-> 0, id |-> 0, at |-> NULL, safe |-> FALSE,
              checks |-> [passed |-> << >>, failed |-> << >>]]

\* the process: where start() stands, what the connection test and the mail
\* verification answered, the states of the pool, the queue and the HTTP
\* server, where each call of gracefulShutdown stands, and how the process
\* exited
Fresh ==
  [pc |-> "initDatabase", dbTested |-> FALSE, smtpVerified |-> FALSE,
   db |-> "none", queue |-> "none", server |-> "new",
   sd |-> [k \in 1..MaxSignals |-> "idle"], exit |-> "none"]

\* the process after a start that succeeded
Running ==
  [Fresh EXCEPT !.pc = "running", !.dbTested = TRUE, !.smtpVerified = TRUE,
                !.db = "open", !.queue = "processing", !.server = "listening"]

Alive == proc.exit = "none"

\* the server accepts requests; the queue hands jobs to the handler
Listening == Alive /\ proc.server = "listening"

Processing == Alive /\ proc.queue = "processing"

\* TEST_GROUP_EMAILS with one address, and with MaxGroup addresses
TestGroup == <<"comms@nuj.org.uk">>

LargeTestGroup == [k \in 1..MaxGroup |-> <<"tester", k>>]

\* the state after start-up, for a set of TEST_GROUP_EMAILS settings
InitWith(groups) ==
  /\ now = 1
  /\ config \in [approvalRequired : BOOLEAN, enableRollback : BOOLEAN,
                 gracePeriodMinutes : {GraceMinutes},
                 testGroupEmails : groups]
  /\ table \in [unsubscribe_url : BOOLEAN, test_mode : BOOLEAN,
                zone : {0, ZoneOffset}]
  /\ members = Members
  /\ pubs = << >>
  /\ approval_requests = {}
  /\ delivery_events = {}
  /\ jobs = << >>
  /\ reqs = [r \in ReqIds |-> IdleReq]
  /\ response = NoResponse
  /\ transport = NoTransport
  /\ faults = 0
  /\ verdict = NoVerdict
  /\ proc = Running
  /\ logged = NullText

Init == InitWith({TestGroup})

\* the clock advances by one minute
Tick ==
  /\ now < MaxTime
  /\ now' = now + 1
  /\ UNCHANGED <<config, table, members, pubs, approval_requests, delivery_events,
                 jobs, reqs, response, transport, faults, verdict>>
  /\ UNCHANGED <<proc, logged>>

\* the approval workflow (dashboard) decides the request for a draft
ApprovalDecided(d, st) ==
  /\ ~ \E a \in approval_requests : a.related_entity_id = d
  /\ approval_requests' = approval_requests \cup
       { [related_entity_id |-> d, request_type |-> "guidance_publication",
          status |-> st] }
  /\ UNCHANGED <<now, config, table, members, pubs, delivery_events, jobs, reqs,
                 response, transport, faults, verdict>>
  /\ UNCHANGED <<proc, logged>>

\* ------------------------------------------------ POST /publications/schedule
\* the row the INSERT creates: the listed columns, the schema's defaults elsewhere
NewPublication(d, seg, s, tm) ==
  [guidance_draft_id |-> d,
   segment_id |-> seg,
   publication_channel |-> "email",
   scheduled_for |-> s + table.zone,
   published_at |-> NULL,
   recipients_count |-> 0,
   successful_deliveries |-> 0,
   failed_deliveries |-> 0,
   grace_period_ends_at |-> NULL,
   can_rollback |-> TRUE,
   rolled_back_at |-> NULL,
   rollback_reason |-> NullText,
   metadata |-> [test_mode |-> tm],
   unsubscribe_url |-> table.unsubscribe_url,
   test_mode |-> table.test_mode]

\* the job added without its delay
NewJob_noDelay(s, tm) ==
  [state |-> "delayed",
   due |-> now,
   attemptsMade |-> 0,
   testMode |-> tm,
   pc |-> "idle",
   recipients |-> << >>,
   i |-> 0,
   oks |-> << >>,
   approved |-> FALSE,
   tested |-> FALSE,
   failedReason |-> << >>]

\* publishQueue.add(data, {delay}): Bull runs a job with delay <= 0 at once
NewJob(s, tm) ==
  [state |-> "delayed",
   due |-> IF NewDate(s) - NewDate(now) > 0 THEN s ELSE now,
   attemptsMade |-> 0,
   testMode |-> tm,
   pc |-> "idle",
   recipients |-> << >>,
   i |-> 0,
   oks |-> << >>,
   approved |-> FALSE,
   tested |-> FALSE,
   failedReason |-> << >>]

Schedule(d, seg, s, tm) ==
  /\ Listening
  /\ Cardinality(DOMAIN pubs) < MaxPubs
  /\ LET id == Cardinality(DOMAIN pubs) + 1
     IN  /\ pubs' = [q \in DOMAIN pubs \cup {id} |->
                       IF q = id THEN NewPublication(d, seg, s, tm) ELSE pubs[q]]
         /\ jobs' = [q \in DOMAIN jobs \cup {id} |->
                       IF q = id THEN NewJob(s, tm) ELSE jobs[q]]
  /\ UNCHANGED <<now, config, table, members, approval_requests, delivery_events,
                 reqs, response, transport, faults, verdict>>
  /\ UNCHANGED <<proc, logged>>

\* ------------------------------------------------ publishQueue.process
\* defaultJobOptions.backoff: exponential, 2000 ms, in whole minutes
backoffDelay == 2000

RECURSIVE Pow2(_)
Pow2(n) == IF n = 0 THEN 1 ELSE 2 * Pow2(n - 1)

Backoff(attemptsMade) == (backoffDelay * Pow2(attemptsMade - 1)) \div MsPerMinute

\* the names of the failed checks, as the handler joins them into its error
FailedNames(failed) == [k \in 1..Len(failed) |-> failed[k].name]

\* the retry rule with one attempt more than configured
Thrown_oneMore(job, reason) ==
  LET made == job.attemptsMade + 1
  IN  [job EXCEPT !.state = IF made < attempts + 1 THEN "delayed" ELSE "failed",
                  !.attemptsMade = made,
                  !.due = IF made < attempts + 1 THEN now + Backoff(made) ELSE @,
                  !.failedReason = reason,
                  !.pc = "idle", !.recipients = << >>, !.i = 0, !.oks = << >>]

\* the handler threw: Bull retries while attempts remain, else the job is
\* failed; either way it keeps the message of the error (removeOnFail: false)
Thrown(job, reason) ==
  LET made == job.attemptsMade + 1
  IN  [job EXCEPT !.state = IF made < attempts THEN "delayed" ELSE "failed",
                  !.attemptsMade = made,
                  !.due = IF made < attempts THEN now + Backoff(made) ELSE @,
                  !.failedReason = reason,
                  !.pc = "idle", !.recipients = << >>, !.i = 0, !.oks = << >>]

\* results.sent and results.failed of sendGuidance
Count(oks, v) == Cardinality({ k \in 1..Len(oks) : oks[k] = v })

RECURSIVE Errors(_, _)
\* results.errors: one entry per recipient whose transport call threw
Errors(recipients, oks) ==
  IF Len(oks) = 0 THEN << >>
  ELSE (IF Head(oks) THEN << >>
        ELSE <<[email |-> Head(recipients).email, error |-> "transport"]>>)
       \o Errors(Tail(recipients), Tail(oks))

\* the results object sendGuidance returns after the calls in oks
Results(recipients, oks) ==
  [sent |-> Count(oks, TRUE), failed |-> Count(oks, FALSE),
   errors |-> Errors(recipients, oks)]

\* the job is taken (one at a time), the publication fetched, the guardrails
\* evaluated (lookupFails: the count query of the rate limit throws) and,
\* when safe, the recipients resolved
JobStart(p, lookupFails) ==
  /\ Processing
  /\ lookupFails => faults < MaxFaults
  /\ faults' = IF lookupFails THEN faults + 1 ELSE faults
  /\ p \in DOMAIN jobs
  /\ jobs[p].state = "delayed"
  /\ now >= jobs[p].due
  /\ \A q \in DOMAIN jobs : jobs[q].state # "active"
  /\ LET publication == pubs[p]
         safetyCheck == checkBeforePublish(publication, config, now,
                                           approval_requests, pubs, delivery_events,
                                           lookupFails)
         recipients == IF jobs[p].testMode
                       THEN TestRecipients(config.testGroupEmails)
                       ELSE getRecipients(publication, members)
         approved == \E a \in approval_requests :
                        /\ a.related_entity_id = publication.guidance_draft_id
                        /\ a.status = "approved"
         tested == \E q \in DOMAIN pubs :
                      /\ pubs[q].guidance_draft_id = publication.guidance_draft_id
                      /\ pubs[q].metadata.test_mode
                      /\ pubs[q].published_at # NULL
     IN  jobs' = [jobs EXCEPT ![p] =
                    IF ~safetyCheck.safe
                    THEN Thrown(jobs[p], FailedNames(safetyCheck.checks.failed))
                    ELSE [jobs[p] EXCEPT !.state = "active", !.pc = "send",
                                         !.recipients = recipients, !.i = 0,
                                         !.oks = << >>, !.approved = approved,
                                         !.tested = tested]]
  /\ UNCHANGED <<now, config, table, members, pubs, approval_requests,
                 delivery_events, reqs, response, transport, verdict>>
  /\ logged' = IF lookupFails THEN "rate_limit" ELSE NullText
  /\ UNCHANGED proc

\* emailService.sendGuidance: one transport call, which succeeds or throws
JobSend(p, ok) ==
  /\ Alive
  /\ p \in DOMAIN jobs
  /\ jobs[p].state = "active"
  /\ jobs[p].pc = "send"
  /\ jobs[p].i < Len(jobs[p].recipients)
  /\ transport' = [publication_id |-> p,
                   to |-> jobs[p].recipients[jobs[p].i + 1].email,
                   ok |-> ok,
                   approved |-> jobs[p].approved,
                   tested |-> jobs[p].tested,
                   rolled_back |-> pubs[p].rolled_back_at # NULL]
  /\ jobs' = [jobs EXCEPT ![p].i = @ + 1, ![p].oks = Append(@, ok)]
  /\ UNCHANGED <<now, config, table, members, pubs, approval_requests,
                 delivery_events, reqs, response, faults, verdict>>
  /\ UNCHANGED <<proc, logged>>

\* the UPDATE storing the number of mails sent as recipients_count
Published_countSent(row, sent, failed, count, t, cfg) ==
  [row EXCEPT !.published_at = t,
              !.successful_deliveries = sent,
              !.failed_deliveries = failed,
              !.recipients_count = sent,
              !.grace_period_ends_at = t + cfg.gracePeriodMinutes]

\* UPDATE guidance_publications SET published_at = NOW(), ... WHERE id = $4
Published(row, sent, failed, count, t, cfg) ==
  [row EXCEPT !.published_at = t,
              !.successful_deliveries = sent,
              !.failed_deliveries = failed,
              !.recipients_count = count,
              !.grace_period_ends_at = t + cfg.gracePeriodMinutes]

JobUpdate(p) ==
  /\ Alive
  /\ p \in DOMAIN jobs
  /\ jobs[p].state = "active"
  /\ jobs[p].pc = "send"
  /\ jobs[p].i = Len(jobs[p].recipients)
  /\ LET results == Results(jobs[p].recipients, jobs[p].oks)
     IN  pubs' = [pubs EXCEPT ![p] = Published(@, results.sent, results.failed,
                                              Len(jobs[p].recipients), now, config)]
  /\ jobs' = [jobs EXCEPT ![p].pc = "log", ![p].i = 0]
  /\ UNCHANGED <<now, config, table, members, approval_requests, delivery_events,
                 reqs, response, transport, faults, verdict>>
  /\ UNCHANGED <<proc, logged>>

\* INSERT INTO delivery_events ... 'sent' for the next recipient of the loop;
\* id stands for the generated uuid, send_ok (no column: history) tells whether
\* the transport call of this attempt for this recipient had succeeded
DeliveryEvent(p, recipient, t, testMode, uuid, ok) ==
  [publication_id |-> p,
   event_type |-> "sent",
   recipient_hash |-> hashEmail(recipient.email),
   occurred_at |-> t,
   metadata |-> [test_mode |-> testMode],
   id |-> uuid,
   send_ok |-> ok]

JobLog(p) ==
  /\ Alive
  /\ p \in DOMAIN jobs
  /\ jobs[p].state = "active"
  /\ jobs[p].pc = "log"
  /\ jobs[p].i < Len(jobs[p].recipients)
  /\ delivery_events' = delivery_events \cup
       { DeliveryEvent(p, jobs[p].recipients[jobs[p].i + 1], now, jobs[p].testMode,
                       <<p, jobs[p].attemptsMade + 1, jobs[p].i + 1>>,
                       jobs[p].oks[jobs[p].i + 1]) }
  /\ jobs' = [jobs EXCEPT ![p].i = @ + 1]
  /\ UNCHANGED <<now, config, table, members, pubs, approval_requests, reqs,
                 response, transport, faults, verdict>>
  /\ UNCHANGED <<proc, logged>>

\* the handler returns its result: the job is completed
JobReturn(p) ==
  /\ Alive
  /\ p \in DOMAIN jobs
  /\ jobs[p].state = "active"
  /\ jobs[p].pc = "log"
  /\ jobs[p].i = Len(jobs[p].recipients)
  /\ jobs' = [jobs EXCEPT ![p].state = "completed", ![p].pc = "idle",
                          ![p].recipients = << >>, ![p].i = 0, ![p].oks = << >>]
  /\ UNCHANGED <<now, config, table, members, pubs, approval_requests,
                 delivery_events, reqs, response, transport, faults, verdict>>
  /\ UNCHANGED <<proc, logged>>

\* the failing write swallowed: the handler goes on to its return
JobStorageError_swallowed(p) ==
  /\ Alive
  /\ faults < MaxFaults
  /\ faults' = faults + 1
  /\ p \in DOMAIN jobs
  /\ jobs[p].state = "active"
  /\ \/ jobs[p].pc = "send" /\ jobs[p].i = Len(jobs[p].recipients)
     \/ jobs[p].pc = "log" /\ jobs[p].i < Len(jobs[p].recipients)
  /\ jobs' = [jobs EXCEPT ![p].state = "completed", ![p].pc = "idle",
                          ![p].recipients = << >>, ![p].i = 0, ![p].oks = << >>]
  /\ UNCHANGED <<now, config, table, members, pubs, approval_requests,
                 delivery_events, reqs, response, transport, verdict>>
  /\ UNCHANGED <<proc, logged>>

\* the UPDATE or an INSERT of the handler fails in the store: the handler rethrows
JobStorageError(p) ==
  /\ Alive
  /\ faults < MaxFaults
  /\ faults' = faults + 1
  /\ p \in DOMAIN jobs
  /\ jobs[p].state = "active"
  /\ \/ jobs[p].pc = "send" /\ jobs[p].i = Len(jobs[p].recipients)
     \/ jobs[p].pc = "log" /\ jobs[p].i < Len(jobs[p].recipients)
  /\ jobs' = [jobs EXCEPT ![p] = Thrown(@, <<"storage error">>)]
  /\ UNCHANGED <<now, config, table, members, pubs, approval_requests,
                 delivery_events, reqs, response, transport, verdict>>
  /\ UNCHANGED <<proc, logged>>

\* ------------------------------------------------ POST /publications/:id/rollback
\* UPDATE guidance_publications SET rolled_back_at = NOW(), ... WHERE id = $2
\* the UPDATE without its can_rollback = false
RolledBack_keepFlag(row, reason, t) ==
  [row EXCEPT !.rolled_back_at = t,
              !.rollback_reason = reason]

RolledBack(row, reason, t) ==
  [row EXCEPT !.rolled_back_at = t,
              !.rollback_reason = reason,
              !.can_rollback = FALSE]

\* the comparison of the route turned around
Expired_inverted(publication, t) ==
  NewDate(t) < NewDate(publication.grace_period_ends_at)

\* the check of the route on the row it fetched: now > gracePeriodEnds
Expired(publication, t) ==
  NewDate(t) > NewDate(publication.grace_period_ends_at)

Respond(req, status, error, overwrote) ==
  [status |-> status, error |-> error, id |-> req.id,
   at |-> req.at, found |-> req.found, rolled_back |-> req.rolled_back,
   grace_period_ends_at |-> req.grace_period_ends_at,
   job_pending |-> req.job_pending, overwrote |-> overwrote]

\* the request arrives: the row is fetched and the grace period checked
RollbackRequest(r, id) ==
  /\ Listening
  /\ reqs[r].pc = "idle"
  /\ \A q \in ReqIds : q < r => reqs[q].pc # "idle"
  /\ LET found == id \in DOMAIN pubs
         req == [pc |-> "update", id |-> id, reason |-> ReasonOf(r), at |-> now,
                 found |-> found,
                 rolled_back |-> found /\ pubs[id].rolled_back_at # NULL,
                 grace_period_ends_at |->
                     IF found THEN pubs[id].grace_period_ends_at ELSE NULL,
                 job_pending |-> found /\ jobs[id].state = "delayed"
                                       /\ jobs[id].attemptsMade = 0]
     IN  IF ~found
         THEN /\ response' = Respond(req, 404, "Publication not found", FALSE)
              /\ reqs' = [reqs EXCEPT ![r] = DoneReq]
         ELSE IF Expired(pubs[id], now)
         THEN /\ response' = Respond(req, 400, "Grace period expired", FALSE)
              /\ reqs' = [reqs EXCEPT ![r] = DoneReq]
         ELSE /\ reqs' = [reqs EXCEPT ![r] = req]
              /\ UNCHANGED response
  /\ UNCHANGED <<now, config, table, members, pubs, approval_requests,
                 delivery_events, jobs, transport, faults, verdict>>
  /\ UNCHANGED <<proc, logged>>

\* the UPDATE of the route runs and the success response is sent
RollbackUpdate(r) ==
  /\ Alive
  /\ reqs[r].pc = "update"
  /\ pubs' = [pubs EXCEPT ![reqs[r].id] = RolledBack(@, reqs[r].reason, now)]
  /\ response' = Respond(reqs[r], 200, NullText, pubs[reqs[r].id].rolled_back_at # NULL)
  /\ reqs' = [reqs EXCEPT ![r] = DoneReq]
  /\ UNCHANGED <<now, config, table, members, approval_requests, delivery_events,
                 jobs, transport, faults, verdict>>
  /\ UNCHANGED <<proc, logged>>

\* ------------------------------------------------ GET /publications/:id
\* the body of the status response for a publication found: the columns of the
\* row as stored, and the delivery events counted by type
GetPublication(id) ==
  [publication |->
     [id |-> id,
      scheduled_for |-> pubs[id].scheduled_for,
      published_at |-> pubs[id].published_at,
      recipients_count |-> pubs[id].recipients_count,
      successful_deliveries |-> pubs[id].successful_deliveries,
      failed_deliveries |-> pubs[id].failed_deliveries,
      can_rollback |-> pubs[id].can_rollback,
      grace_period_ends_at |-> pubs[id].grace_period_ends_at,
      rolled_back_at |-> pubs[id].rolled_back_at,
      events |-> [ty \in { e.event_type : e \in { x \in delivery_events :
                                                    x.publication_id = id } } |->
                    Cardinality({ e \in delivery_events :
                                    /\ e.publication_id = id
                                    /\ e.event_type = ty })]]]

\* ------------------------------------------------ POST /publications/:id/safety-check
\* a response that drops the failed checks of the verdict
SafetyResponse_noFailed(id, t, safetyCheck) ==
  [status |-> 200, id |-> id, at |-> t, safe |-> safetyCheck.safe,
   checks |-> [safetyCheck.checks EXCEPT !.failed = << >>]]

\* res.json(safetyCheck)
SafetyResponse(id, t, safetyCheck) ==
  [status |-> 200, id |-> id, at |-> t, safe |-> safetyCheck.safe,
   checks |-> safetyCheck.checks]

\* the row is fetched and the guardrails evaluated on it; nothing is written
SafetyCheck(id, lookupFails) ==
  /\ Listening
  /\ lookupFails => (faults < MaxFaults /\ id \in DOMAIN pubs)
  /\ faults' = IF lookupFails THEN faults + 1 ELSE faults
  /\ verdict' =
       IF id \notin DOMAIN pubs
       THEN [NoVerdict EXCEPT !.status = 404, !.id = id, !.at = now]
       ELSE SafetyResponse(id, now,
                           checkBeforePublish(pubs[id], config, now,
                                              approval_requests, pubs,
                                              delivery_events, lookupFails))
  /\ UNCHANGED <<now, config, table, members, pubs, approval_requests,
                 delivery_events, jobs, reqs, response, transport>>
  /\ UNCHANGED <<proc, logged>>

\* ------------------------------------------------------------ specification
Next ==
  \/ Tick
  \/ \E d \in Drafts, st \in {"approved", "rejected"} : ApprovalDecided(d, st)
  \/ \E d \in Drafts, seg \in Segments \cup {NullText}, s \in SchedTimes,
        tm \in BOOLEAN : Schedule(d, seg, s, tm)
  \/ \E p \in PubIds, lookupFails \in BOOLEAN : JobStart(p, lookupFails)
  \/ \E p \in PubIds, ok \in BOOLEAN : JobSend(p, ok)
  \/ \E p \in PubIds : JobUpdate(p)
  \/ \E p \in PubIds : JobLog(p)
  \/ \E p \in PubIds : JobReturn(p)
  \/ \E p \in PubIds : JobStorageError(p)
  \/ \E r \in ReqIds, id \in PubIds : RollbackRequest(r, id)
  \/ \E r \in ReqIds : RollbackUpdate(r)

Spec == Init /\ [][Next]_vars

\* gracefulShutdown, then the service started again with ENABLE_ROLLBACK set
\* the other way: the server and the queue close once no request and no job
\* is in progress, the tables and the queue keep what they hold
Restart(enableRollback) ==
  /\ proc = Running
  /\ enableRollback # config.enableRollback
  /\ \A r \in ReqIds : reqs[r].pc # "update"
  /\ \A p \in DOMAIN jobs : jobs[p].state # "active"
  /\ config' = [config EXCEPT !.enableRollback = enableRollback]
  /\ UNCHANGED <<now, table, members, pubs, approval_requests, delivery_events,
                 jobs, reqs, response, transport, faults, verdict>>
  /\ UNCHANGED <<proc, logged>>

RestartNext ==
  \/ Next
  \/ \E enableRollback \in BOOLEAN : Restart(enableRollback)

RestartSpec == Init /\ [][RestartNext]_vars

\* the service without rollback requests, its test group of one address or
\* of MaxGroup addresses: the batches of the queue worker
BatchInit == InitWith({TestGroup, LargeTestGroup})

BatchNext ==
  \/ Tick
  \/ \E d \in Drafts, st \in {"approved", "rejected"} : ApprovalDecided(d, st)
  \/ \E d \in Drafts, seg \in Segments \cup {NullText}, s \in SchedTimes,
        tm \in BOOLEAN : Schedule(d, seg, s, tm)
  \/ \E p \in PubIds, lookupFails \in BOOLEAN : JobStart(p, lookupFails)
  \/ \E p \in PubIds, ok \in BOOLEAN : JobSend(p, ok)
  \/ \E p \in PubIds : JobUpdate(p)
  \/ \E p \in PubIds : JobLog(p)
  \/ \E p \in PubIds : JobReturn(p)
  \/ \E p \in PubIds : JobStorageError(p)

BatchSpec == BatchInit /\ [][BatchNext]_vars

\* the service with its safety-check route and without rollback requests: the
\* evaluations of the guardrails, by the queue worker and by the route
GateNext ==
  \/ BatchNext
  \/ \E id \in PubIds, lookupFails \in BOOLEAN : SafetyCheck(id, lookupFails)

GateSpec == Init /\ [][GateNext]_vars

\* n sent events an earlier run of the service recorded this minute
PriorEvents(n) ==
  { [publication_id |-> 0,
     event_type |-> "sent",
     recipient_hash |-> hashEmail(<<"member", k>>),
     occurred_at |-> 1,
     metadata |-> [test_mode |-> FALSE],
     id |-> <<0, 1, k>>,
     send_ok |-> TRUE] : k \in 1..n }

\* the service started over a delivery_events table that holds one sent
\* event less than the ceiling of the rate limit, its test group of
\* MaxGroup - 1 addresses: a batch larger than the allowance left
RateInit ==
  /\ now = 1
  /\ config \in [approvalRequired : BOOLEAN, enableRollback : {FALSE},
                 gracePeriodMinutes : {GraceMinutes},
                 testGroupEmails : {SubSeq(LargeTestGroup, 1, MaxGroup - 1)}]
  /\ table \in [unsubscribe_url : BOOLEAN, test_mode : BOOLEAN,
                zone : {0, ZoneOffset}]
  /\ members = Members
  /\ pubs = << >>
  /\ approval_requests = {}
  /\ delivery_events = PriorEvents(RateCeiling - 1)
  /\ jobs = << >>
  /\ reqs = [r \in ReqIds |-> IdleReq]
  /\ response = NoResponse
  /\ transport = NoTransport
  /\ faults = 0
  /\ verdict = NoVerdict
  /\ proc = Running
  /\ logged = NullText

RateSpec == RateInit /\ [][BatchNext]_vars

\* a job attempt in whose gate evaluation the approval query, or the query
\* for an earlier test publication, throws; the catch logs the error
JobStartLookupError(p, which) ==
  /\ Processing
  /\ faults < MaxFaults
  /\ faults' = faults + 1
  /\ p \in DOMAIN jobs
  /\ jobs[p].state = "delayed"
  /\ now >= jobs[p].due
  /\ \A q \in DOMAIN jobs : jobs[q].state # "active"
  /\ which = "approval" => config.approvalRequired
  /\ which = "test_group" => ~pubs[p].test_mode
  /\ LET publication == pubs[p]
         checks == ChecksOnError(publication, config, now, approval_requests,
                                 pubs, delivery_events, {which})
         recipients == IF jobs[p].testMode
                       THEN TestRecipients(config.testGroupEmails)
                       ELSE getRecipients(publication, members)
     IN  jobs' = [jobs EXCEPT ![p] =
                    IF ~Safe(checks)
                    THEN Thrown(jobs[p], FailedNames(checks.failed))
                    ELSE [jobs[p] EXCEPT !.state = "active", !.pc = "send",
                                         !.recipients = recipients, !.i = 0,
                                         !.oks = << >>]]
  /\ logged' = which
  /\ UNCHANGED <<now, config, table, members, pubs, approval_requests,
                 delivery_events, reqs, response, transport, verdict, proc>>

LookupNext ==
  \/ BatchNext
  \/ \E p \in PubIds, which \in {"approval", "test_group"} :
        JobStartLookupError(p, which)

LookupSpec == Init /\ [][LookupNext]_vars

\* the schedule route when publishQueue.add rejects: the row is inserted
\* already, the catch answers 500, and no job exists for the row
ScheduleAddFails(d, seg, s, tm) ==
  /\ Listening
  /\ faults < MaxFaults
  /\ faults' = faults + 1
  /\ Cardinality(DOMAIN pubs) < MaxPubs
  /\ LET id == Cardinality(DOMAIN pubs) + 1
     IN  pubs' = [q \in DOMAIN pubs \cup {id} |->
                    IF q = id THEN NewPublication(d, seg, s, tm) ELSE pubs[q]]
  /\ UNCHANGED <<now, config, table, members, approval_requests, delivery_events,
                 jobs, reqs, response, transport, verdict>>
  /\ UNCHANGED <<proc, logged>>

EnqueueNext ==
  \/ BatchNext
  \/ \E d \in Drafts, seg \in Segments \cup {NullText}, s \in SchedTimes,
        tm \in BOOLEAN : ScheduleAddFails(d, seg, s, tm)

EnqueueSpec == Init /\ [][EnqueueNext]_vars

\* the members table is written outside this service: a member subscribes or
\* unsubscribes
MemberChange(id) ==
  /\ members' = { IF m.id = id THEN [m EXCEPT !.subscribed = ~@] ELSE m :
                  m \in members }
  /\ UNCHANGED <<now, config, table, pubs, approval_requests, delivery_events,
                 jobs, reqs, response, transport, faults, verdict>>
  /\ UNCHANGED <<proc, logged>>

MemberNext ==
  \/ BatchNext
  \/ \E m \in Members : MemberChange(m.id)

MemberSpec == Init /\ [][MemberNext]_vars

\* ------------------------------------------------------------ start()
\* initDatabase: the pool is created and the connection tested; a failed test
\* is rethrown and the catch of start() exits with 1
InitDatabase(ok) ==
  /\ Alive
  /\ proc.pc = "initDatabase"
  /\ proc' = IF ok
             THEN [proc EXCEPT !.pc = "initQueue", !.db = "open", !.dbTested = TRUE]
             ELSE [proc EXCEPT !.pc = "exited", !.db = "open", !.exit = "failure"]
  /\ UNCHANGED <<now, config, table, members, pubs, approval_requests,
                 delivery_events, jobs, reqs, response, transport, faults,
                 verdict, logged>>

\* initQueue with a mail verification that is not awaited for its answer
InitQueue_ignoreVerify(ok) ==
  /\ Alive
  /\ proc.pc = "initQueue"
  /\ proc' = [proc EXCEPT !.pc = "listen", !.queue = "processing",
                          !.smtpVerified = ok]
  /\ UNCHANGED <<now, config, table, members, pubs, approval_requests,
                 delivery_events, jobs, reqs, response, transport, faults,
                 verdict, logged>>

\* initQueue: the queue is created, the mail transport verified, and only
\* then the handler registered; a failed verification is rethrown
InitQueue(ok) ==
  /\ Alive
  /\ proc.pc = "initQueue"
  /\ proc' = IF ok
             THEN [proc EXCEPT !.pc = "listen", !.queue = "processing",
                               !.smtpVerified = TRUE]
             ELSE [proc EXCEPT !.pc = "exited", !.queue = "open",
                               !.exit = "failure"]
  /\ UNCHANGED <<now, config, table, members, pubs, approval_requests,
                 delivery_events, jobs, reqs, response, transport, faults,
                 verdict, logged>>

\* server.listen, and the signal handlers registered
Listen ==
  /\ Alive
  /\ proc.pc = "listen"
  /\ proc' = [proc EXCEPT !.pc = "running", !.server = "listening"]
  /\ UNCHANGED <<now, config, table, members, pubs, approval_requests,
                 delivery_events, jobs, reqs, response, transport, faults,
                 verdict, logged>>

\* ------------------------------------------------------------ gracefulShutdown
\* the k-th SIGTERM or SIGINT: server.close(callback) stops the server
\* accepting, and the 30 s timer is set
Signal(k) ==
  /\ Alive
  /\ proc.pc = "running"
  /\ proc.sd[k] = "idle"
  /\ \A j \in 1..(k - 1) : proc.sd[j] # "idle"
  /\ proc' = [proc EXCEPT !.sd[k] = "waiting",
                          !.server = IF @ = "listening" THEN "closing" ELSE @]
  /\ UNCHANGED <<now, config, table, members, pubs, approval_requests,
                 delivery_events, jobs, reqs, response, transport, faults,
                 verdict, logged>>

\* the callback of server.close going straight to closeDatabase
ServerClosed_skipQueue(k) ==
  /\ Alive
  /\ proc.sd[k] = "waiting"
  /\ \A r \in ReqIds : reqs[r].pc # "update"
  /\ proc' = [proc EXCEPT !.sd[k] = "closeDatabase", !.server = "closed"]
  /\ UNCHANGED <<now, config, table, members, pubs, approval_requests,
                 delivery_events, jobs, reqs, response, transport, faults,
                 verdict, logged>>

\* the callback of server.close runs once no request is in progress
ServerClosed(k) ==
  /\ Alive
  /\ proc.sd[k] = "waiting"
  /\ \A r \in ReqIds : reqs[r].pc # "update"
  /\ proc' = [proc EXCEPT !.sd[k] = "closeQueue", !.server = "closed"]
  /\ UNCHANGED <<now, config, table, members, pubs, approval_requests,
                 delivery_events, jobs, reqs, response, transport, faults,
                 verdict, logged>>

\* await closeQueue(): publishQueue.close() waits for the active job; when it
\* rejects the catch exits with 1
CloseQueue(k, ok) ==
  /\ Alive
  /\ proc.sd[k] = "closeQueue"
  /\ \A p \in DOMAIN jobs : jobs[p].state # "active"
  /\ proc' = IF ok
             THEN [proc EXCEPT !.sd[k] = "closeDatabase", !.queue = "closed"]
             ELSE [proc EXCEPT !.sd[k] = "exited", !.exit = "failure"]
  /\ UNCHANGED <<now, config, table, members, pubs, approval_requests,
                 delivery_events, jobs, reqs, response, transport, faults,
                 verdict, logged>>

\* await closeDatabase(): db.end() rejects when it fails, and when the pool
\* was ended by an earlier call already
CloseDatabase(k, ok) ==
  /\ Alive
  /\ proc.sd[k] = "closeDatabase"
  /\ proc' = IF ok /\ proc.db = "open"
             THEN [proc EXCEPT !.sd[k] = "exit", !.db = "closed"]
             ELSE [proc EXCEPT !.sd[k] = "exited", !.exit = "failure"]
  /\ UNCHANGED <<now, config, table, members, pubs, approval_requests,
                 delivery_events, jobs, reqs, response, transport, faults,
                 verdict, logged>>

\* process.exit(0) at the end of the callback
ExitSuccess(k) ==
  /\ Alive
  /\ proc.sd[k] = "exit"
  /\ proc' = [proc EXCEPT !.sd[k] = "exited", !.exit = "success"]
  /\ UNCHANGED <<now, config, table, members, pubs, approval_requests,
                 delivery_events, jobs, reqs, response, transport, faults,
                 verdict, logged>>

\* the timer of the k-th call fires: process.exit(1)
ForceExit(k) ==
  /\ Alive
  /\ proc.sd[k] # "idle"
  /\ proc' = [proc EXCEPT !.sd[k] = "exited", !.exit = "failure"]
  /\ UNCHANGED <<now, config, table, members, pubs, approval_requests,
                 delivery_events, jobs, reqs, response, transport, faults,
                 verdict, logged>>

\* the service from the start of its process to its exit
ProcessInit ==
  /\ now = 1
  /\ config \in [approvalRequired : BOOLEAN, enableRollback : BOOLEAN,
                 gracePeriodMinutes : {GraceMinutes},
                 testGroupEmails : {TestGroup}]
  /\ table \in [unsubscribe_url : BOOLEAN, test_mode : BOOLEAN,
                zone : {0, ZoneOffset}]
  /\ members = Members
  /\ pubs = << >>
  /\ approval_requests = {}
  /\ delivery_events = {}
  /\ jobs = << >>
  /\ reqs = [r \in ReqIds |-> IdleReq]
  /\ response = NoResponse
  /\ transport = NoTransport
  /\ faults = 0
  /\ verdict = NoVerdict
  /\ proc = Fresh
  /\ logged = NullText

StartNext ==
  \/ BatchNext
  \/ \E ok \in BOOLEAN : InitDatabase(ok)
  \/ \E ok \in BOOLEAN : InitQueue(ok)
  \/ Listen

StartSpec == ProcessInit /\ [][StartNext]_vars

\* the running service, approval and rollback not required, and the signals
\* that end it
ShutdownInit ==
  /\ now = 1
  /\ config \in [approvalRequired : {FALSE}, enableRollback : {FALSE},
                 gracePeriodMinutes : {GraceMinutes},
                 testGroupEmails : {TestGroup}]
  /\ table \in [unsubscribe_url : BOOLEAN, test_mode : BOOLEAN,
                zone : {0, ZoneOffset}]
  /\ members = Members
  /\ pubs = << >>
  /\ approval_requests = {}
  /\ delivery_events = {}
  /\ jobs = << >>
  /\ reqs = [r \in ReqIds |-> IdleReq]
  /\ response = NoResponse
  /\ transport = NoTransport
  /\ faults = 0
  /\ verdict = NoVerdict
  /\ proc = Running
  /\ logged = NullText

ShutdownNext ==
  \/ BatchNext
  \/ \E k \in 1..MaxSignals : Signal(k)
  \/ \E k \in 1..MaxSignals : ServerClosed(k)
  \/ \E k \in 1..MaxSignals, ok \in BOOLEAN : CloseQueue(k, ok)
  \/ \E k \in 1..MaxSignals, ok \in BOOLEAN : CloseDatabase(k, ok)
  \/ \E k \in 1..MaxSignals : ExitSuccess(k)
  \/ \E k \in 1..MaxSignals : ForceExit(k)

\* the timers of gracefulShutdown fire
ShutdownSpec ==
  /\ ShutdownInit
  /\ [][ShutdownNext]_vars
  /\ WF_vars(\E k \in 1..MaxSignals : ForceExit(k))

\* one step of the queue worker on the job of p
Worker(p) ==
  \/ \E lookupFails \in BOOLEAN : JobStart(p, lookupFails)
  \/ \E ok \in BOOLEAN : JobSend(p, ok)
  \/ JobUpdate(p)
  \/ JobLog(p)
  \/ JobReturn(p)

\* the batches of the queue worker when the clock runs and the worker takes
\* every job that is due and carries each handler run to its end
LiveSpec ==
  /\ BatchSpec
  /\ WF_vars(Tick)
  /\ \A p \in PubIds : WF_vars(Worker(p))

\* ------------------------------------------------------------ properties

\* what the request of the last response had read made it eligible (spec 4.2):
\* rolled_back_at null, grace_period_ends_at non-null, now < grace_period_ends_at
Eligible(resp) ==
  /\ resp.found
  /\ ~resp.rolled_back
  /\ resp.grace_period_ends_at # NULL
  /\ resp.at < resp.grace_period_ends_at

\* the outcome a response reports
Outcome(resp) ==
  CASE resp.status = 200 -> "success"
    [] resp.status = 404 -> "not-found"
    [] resp.status = 400 /\ resp.error = "Grace period expired" -> "window-expired"
    [] OTHER -> "generic"

\* C1: with approval mandatory, every transport call is made by a job attempt
\* whose gate check found an approval record with status 'approved' for the
\* publication's guidance draft.
C1_SendOnlyWhenApproved ==
  (config.approvalRequired /\ transport.publication_id # 0) => transport.approved

\* C1 witness: approval is mandatory and an email has been sent.
C1_Witness ==
  /\ config.approvalRequired
  /\ transport.publication_id # 0
  /\ transport.ok

\* C2: a publication whose rolled_back_at is set has can_rollback = false, in
\* every state (the rollback writes both in one UPDATE, no job step undoes it).
C2_RolledBackImpliesNotRollbackable ==
  \A p \in DOMAIN pubs : pubs[p].rolled_back_at # NULL => ~pubs[p].can_rollback

\* C2 witness: a rolled-back publication whose row a later job attempt updated.
C2_Witness ==
  \E p \in DOMAIN pubs : /\ pubs[p].rolled_back_at # NULL
                         /\ pubs[p].published_at > pubs[p].rolled_back_at

C5_WindowBoundary ==
  /\ [](  (/\ response.status # 0
           /\ response.found
           /\ ~response.rolled_back
           /\ response.grace_period_ends_at # NULL)
          => /\ (response.at = response.grace_period_ends_at - 1
                   => response.status = 200)
             /\ (response.at = response.grace_period_ends_at + 1
                   => Outcome(response) = "window-expired"))
  /\ [][ \A r \in ReqIds :
           (reqs[r].pc = "idle" /\ reqs'[r].pc = "done")
             => /\ response'.status \in {400, 404}
                /\ UNCHANGED <<pubs, jobs, delivery_events, approval_requests>> ]_vars

\* C5 witness: a request that arrived one minute before the end of the window
\* of a publication not yet rolled back has been answered with success.
C5_Witness ==
  /\ response.status = 200
  /\ ~response.rolled_back
  /\ response.grace_period_ends_at # NULL
  /\ response.at = response.grace_period_ends_at - 1

C9_RollbackBeforeJobStart ==
  (response.status # 0 /\ response.job_pending) => response.status = 200

FailedNow(p) ==
  checkBeforePublish(pubs[p], config, now, approval_requests, pubs,
                     delivery_events, FALSE).checks.failed

\* C12: the verdict is safe exactly when the failed-check list is empty, and a
\* job attempt whose failed-check list is not empty ends in the step of its
\* gate check: it is thrown (counted as an attempt) and no transport call is
\* made, no field of any publication changes and no delivery event is written.
C12_UnsafeVerdictNoSideEffects ==
  [][ \A p \in DOMAIN jobs :
        (jobs[p].state = "delayed" /\ jobs'[p] # jobs[p])
          => LET v == checkBeforePublish(pubs[p], config, now, approval_requests,
                                         pubs, delivery_events, faults' # faults)
             IN  /\ v.safe <=> (v.checks.failed = << >>)
                 /\ (v.checks.failed = << >>) => jobs'[p].state = "active"
                 /\ (v.checks.failed # << >>)
                      => /\ jobs'[p].state \in {"delayed", "failed"}
                         /\ jobs'[p].attemptsMade = jobs[p].attemptsMade + 1
                         /\ UNCHANGED <<pubs, delivery_events, transport>> ]_vars

\* C12 witness: a job attempt was refused by the gate (no storage error was
\* ever injected) and the publication is as the schedule route created it.
C12_Witness ==
  \E p \in DOMAIN jobs : /\ jobs[p].attemptsMade >= 1
                         /\ faults = 0
                         /\ FailedNow(p) # << >>
                         /\ pubs[p].published_at = NULL
                         /\ delivery_events = {}
                         /\ transport = NoTransport

\* C13: a job is attempted at most 3 times, a thrown attempt with attempts
\* left is delayed by the backoff, and every job ends completed or failed; a
\* job that failed on gate refusals alone (no storage error) has made exactly
\* 3 attempts, is kept with the failed checks of its last attempt, and its
\* publication is as scheduled: published_at and grace_period_ends_at null,
\* no delivery event.
C13_GateFailureCeiling ==
  /\ [](\A p \in DOMAIN jobs :
          /\ jobs[p].attemptsMade <= 3
          /\ (jobs[p].state = "failed" /\ faults = 0)
               => /\ jobs[p].attemptsMade = 3
                  /\ jobs[p].failedReason # << >>
                  /\ pubs[p].published_at = NULL
                  /\ pubs[p].grace_period_ends_at = NULL
                  /\ ~ \E e \in delivery_events : e.publication_id = p)
  /\ [][ \A p \in DOMAIN jobs :
          (jobs'[p].attemptsMade > jobs[p].attemptsMade
             /\ jobs'[p].state = "delayed")
            => jobs'[p].due = now + Backoff(jobs'[p].attemptsMade) ]_vars
  /\ \A p \in PubIds :
       (p \in DOMAIN jobs)
         ~> (p \in DOMAIN jobs /\ jobs[p].state \in {"completed", "failed"})

\* C13 witness: a job has failed after three gate refusals and is kept with
\* the names of the checks that failed.
C13_Witness ==
  \E p \in DOMAIN jobs : /\ jobs[p].state = "failed"
                         /\ faults = 0
                         /\ jobs[p].attemptsMade = 3
                         /\ jobs[p].failedReason = FailedNames(FailedNow(p))
                         /\ pubs[p].published_at = NULL

\* a test-mode publication of p, scheduled at least the grace duration ahead
\* of now, whose job has not run yet and runs at scheduled_for, with an
\* approved approval record, test addresses configured and both columns the
\* compliance and test checks read present in the fetched row
ReadyTestPublication(p) ==
  /\ p \in DOMAIN pubs
  /\ pubs[p].metadata.test_mode
  /\ pubs[p].unsubscribe_url
  /\ pubs[p].test_mode
  /\ checkApproval(pubs[p], approval_requests)
  /\ Len(config.testGroupEmails) > 0
  /\ ~config.enableRollback
  /\ jobs[p].state = "delayed"
  /\ jobs[p].attemptsMade = 0
  /\ jobs[p].testMode
  /\ jobs[p].due = pubs[p].scheduled_for
  /\ pubs[p].scheduled_for >= now + config.gracePeriodMinutes

\* C14: a test-mode publication scheduled at least the grace duration ahead,
\* approved and with every other fact in order, whose job runs at
\* scheduled_for, is eventually published with grace_period_ends_at = send
\* time + grace duration (unless the store fails under the job).
C14_EndToEndProgress ==
  \A p \in PubIds :
    ReadyTestPublication(p)
      ~> \/ faults > 0
         \/ /\ p \in DOMAIN pubs
            /\ pubs[p].published_at # NULL
            /\ pubs[p].grace_period_ends_at
                 = pubs[p].published_at + config.gracePeriodMinutes

\* the approval record the dashboard writes for an approved publication of d
Approved(d) ==
  [related_entity_id |-> d, request_type |-> "guidance_publication",
   status |-> "approved"]

\* the only defect of the publication of p is the missing approval: approval
\* is mandatory, no approved record exists, and with one the gate is safe
OnlyApprovalMissing(p) ==
  /\ config.approvalRequired
  /\ ~checkApproval(pubs[p], approval_requests)
  /\ checkBeforePublish(pubs[p], config, now,
                        approval_requests \cup {Approved(pubs[p].guidance_draft_id)},
                        pubs, delivery_events, FALSE).safe

\* the layers of a list of entries
LayersOf(list) == { list[k].layer : k \in 1..Len(list) }

EventsOfAttempt(p) ==
  { e \in delivery_events : e.id[1] = p /\ e.id[2] = jobs[p].attemptsMade + 1 }

C17_BatchSurvivesFailures ==
  /\ [](\A p \in DOMAIN pubs :
          pubs[p].successful_deliveries + pubs[p].failed_deliveries
            = pubs[p].recipients_count)
  /\ [][ \A p \in DOMAIN jobs :
          /\ (jobs[p].pc = "send" /\ jobs'[p].pc = "send"
                /\ jobs'[p].i # jobs[p].i)
               => /\ jobs'[p].i = jobs[p].i + 1
                  /\ jobs'[p].state = "active"
                  /\ Len(jobs'[p].oks) = jobs'[p].i
                  /\ transport'.publication_id = p
                  /\ transport'.to = jobs[p].recipients[jobs'[p].i].email
                  /\ transport'.ok = jobs'[p].oks[jobs'[p].i]
          /\ (jobs[p].pc = "send" /\ jobs'[p].pc = "log")
               => LET results == Results(jobs[p].recipients, jobs[p].oks)
                  IN  /\ Len(jobs[p].oks) = Len(jobs[p].recipients)
                      /\ results.sent + results.failed = Len(jobs[p].recipients)
                      /\ Len(results.errors) = results.failed
                      /\ pubs'[p].successful_deliveries = results.sent
                      /\ pubs'[p].failed_deliveries = results.failed
                      /\ pubs'[p].recipients_count = Len(jobs[p].recipients) ]_vars

\* C17 witness: in a batch of three the first call threw, the other two were
\* still made and succeeded, and the row stores 2 + 1 = 3.
C17_Witness ==
  \E p \in DOMAIN jobs : /\ jobs[p].pc = "log"
                         /\ jobs[p].oks = <<FALSE, TRUE, TRUE>>
                         /\ pubs[p].successful_deliveries = 2
                         /\ pubs[p].failed_deliveries = 1
                         /\ pubs[p].recipients_count = 3

RateCount == Cardinality({ e \in delivery_events :
                             /\ e.event_type = "sent"
                             /\ e.occurred_at > now - RateWindow })

\* C19: a gate check whose rate-limit count query throws reports layer 11 as
\* passed, and with the count below the ceiling returns the same passed and
\* failed lists as with the query answered; the job attempt making it starts
\* or is thrown exactly as that answer would have it.
C19_RateLimitFailsOpen ==
  /\ [](\A p \in DOMAIN pubs :
          LET thrown == Checks(pubs[p], config, now, approval_requests, pubs,
                               delivery_events, TRUE)
              answered == Checks(pubs[p], config, now, approval_requests, pubs,
                                 delivery_events, FALSE)
          IN  /\ \E k \in 1..Len(thrown.passed) :
                   thrown.passed[k] = Layer(11, "rate_limiting")
              /\ \A k \in 1..Len(thrown.failed) : thrown.failed[k].layer # 11
              /\ RateCount < RateCeiling => thrown = answered)
  /\ [][ \A p \in DOMAIN jobs :
          (jobs[p].state = "delayed" /\ jobs'[p] # jobs[p] /\ faults' # faults
             /\ RateCount < RateCeiling)
            => LET answered == Checks(pubs[p], config, now, approval_requests, pubs,
                                      delivery_events, FALSE)
               IN  /\ (jobs'[p].state = "active") <=> (answered.failed = << >>)
                   /\ jobs'[p].state # "active"
                        => jobs'[p].failedReason = FailedNames(answered.failed) ]_vars

\* C19 witness: the count query threw in the first attempt of a job, and the
\* attempt passed the gate and is sending.
C19_Witness ==
  \E p \in DOMAIN jobs : /\ jobs[p].state = "active"
                         /\ jobs[p].pc = "send"
                         /\ jobs[p].attemptsMade = 0
                         /\ faults = 1

\* C20: as long as the publication, the configuration and the supporting
\* facts (approval records, publications, delivery events, the answer of the
\* count query) stay the same, the gate returns the same passed and failed
\* lists for the publication, whatever the instant of the evaluation.
C20_GateDeterministic ==
  [][ \A p \in DOMAIN pubs :
        (/\ pubs' = pubs
         /\ config' = config
         /\ approval_requests' = approval_requests
         /\ delivery_events' = delivery_events)
          => Checks(pubs'[p], config', now', approval_requests', pubs',
                    delivery_events', FALSE)
               = Checks(pubs[p], config, now, approval_requests, pubs,
                        delivery_events, FALSE) ]_vars

\* C21: an evaluation of the gate writes nothing.  A request of the
\* safety-check route answers with the verdict for the row as stored and
\* leaves publications, delivery events, approval records, members and every
\* job as they were; the gate check of a job attempt leaves publications,
\* delivery events, approval records and every other job as they were.
C21_GateWritesNothing ==
  [][ /\ verdict' # verdict
          => /\ UNCHANGED <<pubs, delivery_events, approval_requests, members, jobs>>
             /\ verdict'.id \in DOMAIN pubs
                  => /\ verdict'.status = 200
                     /\ verdict'.safe <=> (verdict'.checks.failed = << >>)
                     /\ verdict'.checks
                          = Checks(pubs[verdict'.id], config, now, approval_requests,
                                   pubs, delivery_events, faults' # faults)
      /\ \A p \in DOMAIN jobs :
           (jobs[p].state = "delayed" /\ jobs'[p] # jobs[p])
             => /\ UNCHANGED <<pubs, delivery_events, approval_requests, members>>
                /\ \A q \in DOMAIN jobs \ {p} : jobs'[q] = jobs[q] ]_vars

\* C21 witness: the route has reported an unsafe verdict with its failed
\* checks for a publication whose job the gate had refused before, and the
\* publication is still as scheduled.
C21_Witness ==
  /\ verdict.status = 200
  /\ ~verdict.safe
  /\ verdict.checks.failed # << >>
  /\ jobs[verdict.id].attemptsMade >= 1
  /\ pubs[verdict.id].published_at = NULL
  /\ delivery_events = {}

\* C22: in every state can_rollback of a publication, in the row and in the
\* status response, is true only if rolled_back_at is null,
\* grace_period_ends_at is non-null and now < grace_period_ends_at.
C22_CanRollbackOnlyInWindow ==
  \A p \in DOMAIN pubs :
    (pubs[p].can_rollback \/ GetPublication(p).publication.can_rollback)
      => /\ pubs[p].rolled_back_at = NULL
         /\ pubs[p].grace_period_ends_at # NULL
         /\ now < pubs[p].grace_period_ends_at

C25_GraceJudgedAtScheduleTime ==
  [][ (/\ verdict.status = 200
       /\ 2 \in LayersOf(verdict.checks.passed)
       /\ verdict' # verdict
       /\ verdict'.status = 200
       /\ verdict'.id = verdict.id
       /\ verdict'.at >= pubs[verdict.id].scheduled_for)
      => 2 \in LayersOf(verdict'.checks.passed) ]_vars

\* C26: a publication the schedule route created with the test-mode flag
\* passes the test-group check (no earlier test publication needed), and once
\* its published_at is set a full publication of the same draft, as the
\* schedule route creates it, passes the test-group check too.
C26_TestFlagSatisfiesTestGroup ==
  \A p \in DOMAIN pubs :
    pubs[p].metadata.test_mode
      => /\ checkTestGroup(pubs[p], pubs)
         /\ pubs[p].published_at # NULL
              => \A seg \in Segments, s \in SchedTimes :
                   checkTestGroup(NewPublication(pubs[p].guidance_draft_id,
                                                 seg, s, FALSE), pubs)

C28_ComplianceFollowsMessage ==
  \A p \in DOMAIN pubs :
    (\A k \in 1..Len(TestRecipients(config.testGroupEmails)
                      \o getRecipients(pubs[p], members)) :
        unsubscribeUrl((TestRecipients(config.testGroupEmails)
                        \o getRecipients(pubs[p], members))[k]) # NullText)
      => /\ 8 \in LayersOf(checkDataProtection(pubs[p]).passed)
         /\ 8 \notin LayersOf(checkDataProtection(pubs[p]).failed)

\* C29: with its count query answered, the gate reports layer 11 as passed
\* exactly when the sent events of all publications within the trailing window
\* number strictly fewer than the ceiling, and as failed otherwise, the count
\* equal to the ceiling included.
C29_RateLimitStrictlyBelowCeiling ==
  \A p \in DOMAIN pubs :
    LET c == Checks(pubs[p], config, now, approval_requests, pubs,
                    delivery_events, FALSE)
    IN  /\ (11 \in LayersOf(c.passed)) <=> (RateCount < RateCeiling)
        /\ (11 \in LayersOf(c.failed)) <=> (RateCount >= RateCeiling)

\* a job attempt was thrown on the rate limit with the count at the ceiling
C29_Witness ==
  \E p \in DOMAIN jobs :
    /\ jobs[p].attemptsMade >= 1
    /\ jobs[p].state = "delayed"
    /\ jobs[p].failedReason = <<"rate_limiting">>
    /\ RateCount = RateCeiling

Audience(p) ==
  { m \in members : /\ m.segment_id = pubs[p].segment_id
                    /\ m.email_verified
                    /\ m.subscribed }

\* C32: a job attempt that gets past the gate resolves its recipients in that
\* step: without the test flag of the job, one recipient for each member that
\* is verified, subscribed and of the segment of the publication in the
\* members table as it is then, and no other; with the flag, the configured
\* test addresses in their order.
C32_RecipientsResolvedLate ==
  [][ \A p \in DOMAIN jobs :
        (jobs[p].state = "delayed" /\ jobs'[p].state = "active")
          => LET recipients == jobs'[p].recipients
             IN  IF jobs[p].testMode
                 THEN /\ Len(recipients) = Len(config.testGroupEmails)
                      /\ \A k \in 1..Len(recipients) :
                            recipients[k].email = config.testGroupEmails[k]
                 ELSE /\ { recipients[k].email : k \in 1..Len(recipients) }
                           = { m.email : m \in Audience(p) }
                      /\ Len(recipients) = Cardinality(Audience(p)) ]_vars

\* a member who subscribed after the scheduling was sent the mail of a
\* full-audience job
C32_Witness ==
  /\ transport.publication_id # 0
  /\ ~jobs[transport.publication_id].testMode
  /\ transport.to \notin { m.email : m \in { x \in Members : x.subscribed } }
  /\ transport.to \in { m.email : m \in Audience(transport.publication_id) }

\* the scheduled_for of the request that created p, as new Date() reads it
Requested(p) == pubs[p].scheduled_for - table.zone

C34_WriteFailureFailsAttempt ==
  [][ \A p \in DOMAIN jobs :
        /\ (jobs[p].state = "active" /\ faults' # faults)
             => /\ jobs'[p].state = (IF jobs[p].attemptsMade + 1 < attempts
                                     THEN "delayed" ELSE "failed")
                /\ jobs'[p].attemptsMade = jobs[p].attemptsMade + 1
                /\ jobs'[p].failedReason = <<"storage error">>
                /\ jobs'[p].state = "delayed" => jobs'[p].due >= now
        /\ (jobs[p].state = "active" /\ jobs'[p].state = "completed")
             => /\ faults' = faults
                /\ pubs[p].published_at # NULL
                /\ Cardinality(EventsOfAttempt(p)) = pubs[p].recipients_count ]_vars

\* an event insert failed after part of the batch was logged; the job waits
\* for its retry
C34_Witness ==
  \E p \in DOMAIN jobs :
    /\ jobs[p].state = "delayed"
    /\ jobs[p].attemptsMade = 1
    /\ jobs[p].failedReason = <<"storage error">>
    /\ pubs[p].published_at # NULL
    /\ \E e \in delivery_events : e.id[1] = p /\ e.id[2] = 1
    /\ Cardinality({ e \in delivery_events : e.id[1] = p /\ e.id[2] = 1 })
         < pubs[p].recipients_count

\* C36: the report of every gate evaluation answered by the safety-check
\* route lists each layer 1 to 19 exactly once, in the passed list or in the
\* failed list.
C36_EveryLayerReportedOnce ==
  verdict.status = 200
    => /\ LayersOf(verdict.checks.passed) \cap LayersOf(verdict.checks.failed) = {}
       /\ LayersOf(verdict.checks.passed) \cup LayersOf(verdict.checks.failed) = 1..19
       /\ Len(verdict.checks.passed) + Len(verdict.checks.failed) = 19

\* C37: every stored publication has its one delivery job in the queue,
\* whether the schedule request that stored it answered success or failure.
C37_RecordIffJob ==
  DOMAIN pubs = DOMAIN jobs

\* C38: a job attempt in whose gate evaluation the approval query or the
\* query for an earlier test publication throws is thrown with that check
\* among the failed ones and makes no transport call; an attempt whose
\* rate-limit query throws does not have layer 11 among its failed checks.
C38_LookupErrorsFailClosed ==
  [][ \A p \in DOMAIN jobs :
        (jobs[p].state = "delayed" /\ jobs'[p] # jobs[p])
          => /\ logged' \in {"approval", "test_group"}
                  => /\ jobs'[p].state \in {"delayed", "failed"}
                     /\ jobs'[p].attemptsMade = jobs[p].attemptsMade + 1
                     /\ \E k \in 1..Len(jobs'[p].failedReason) :
                           jobs'[p].failedReason[k]
                             = (IF logged' = "approval"
                                THEN "approval_required" ELSE "test_group")
                     /\ transport' = transport
             /\ logged' = "rate_limit"
                  => \/ jobs'[p].state = "active"
                     \/ \A k \in 1..Len(jobs'[p].failedReason) :
                           jobs'[p].failedReason[k] # "rate_limiting" ]_vars

\* the approval query threw for a draft that is approved: the attempt was
\* thrown on approval_required alone
C38_Witness ==
  \E p \in DOMAIN jobs :
    /\ logged = "approval"
    /\ jobs[p].state = "delayed"
    /\ jobs[p].failedReason = <<"approval_required">>
    /\ \E a \in approval_requests :
          /\ a.related_entity_id = pubs[p].guidance_draft_id
          /\ a.status = "approved"

\* C35: the server listens, the queue hands out jobs, and publications and
\* jobs exist only after the connection test and the mail verification both
\* succeeded; a start in which either failed has exited with failure, never
\* listening and with no handler registered.
C35_StartupFailuresAreFatal ==
  /\ (\/ proc.server # "new"
      \/ proc.queue = "processing"
      \/ DOMAIN pubs # {}
      \/ DOMAIN jobs # {}) => (proc.dbTested /\ proc.smtpVerified)
  /\ (proc.pc \notin {"initDatabase", "initQueue"}
        /\ ~(proc.dbTested /\ proc.smtpVerified))
       => /\ proc.pc = "exited"
          /\ proc.exit = "failure"
          /\ proc.server = "new"
          /\ proc.queue # "processing"

\* the connection test succeeded, the mail verification failed, and the
\* process exited with failure before the handler was registered
C35_Witness ==
  /\ proc.pc = "exited"
  /\ proc.exit = "failure"
  /\ proc.dbTested
  /\ ~proc.smtpVerified
  /\ proc.queue = "open"
  /\ proc.server = "new"

\* C39: the pool is closed only after the queue and the queue only after the
\* server; the process exits with success only with the queue and the pool
\* closed; and once gracefulShutdown was called the process exits.
C39_OrderlyShutdown ==
  /\ [](/\ proc.db = "closed" => proc.queue = "closed"
        /\ proc.queue = "closed" => proc.server = "closed"
        /\ proc.exit = "success" => (proc.queue = "closed" /\ proc.db = "closed"))
  /\ ((\E k \in 1..MaxSignals : proc.sd[k] # "idle") ~> proc.exit # "none")

\* the callback of server.close never ran, the queue and the pool are open,
\* and the timer ended the process with failure
C39_Witness ==
  /\ proc.exit = "failure"
  /\ proc.server = "closing"
  /\ proc.queue = "processing"
  /\ proc.db = "open"

====
